---- MODULE Spec2Model ----
(***************************************************************************)
(* Model of capacities-companion: utils/networks.py                        *)
(* (extract_object_mentions, build_object_graph) and utils/data.py         *)
(* (parse_capacities_export_zip).                                          *)
(*                                                                         *)
(* A Python string is a sequence of tokens.  A token is one character      *)
(* ("[", "]", "(", ")", "#", "?", "/", " ", a letter) or an indivisible    *)
(* run of characters that the code only ever looks at as a whole: a URI    *)
(* scheme ("https://"), a file extension (".md"), a percent escape         *)
(* ("%41"), a date ("2025-01-01").  No token is a prefix or a suffix of    *)
(* the text of another, so prefix, suffix and equality tests on token      *)
(* sequences agree with the same tests on the characters.                  *)
(*                                                                         *)
(* A Python value is a record with a kind: none, nat (pandas NaT), str,    *)
(* num, list, dict, timestamp, dtindex (pandas DatetimeIndex).             *)
(***************************************************************************)
EXTENDS Integers, Sequences, FiniteSets, TLC

VARIABLES
    text, matches, mentions, seen, epc,                 \* extract_object_mentions
    df, normalize_dict_attrs, pc, row_i,                \* build_object_graph
    file_lookup, nodes, edges,
    archive, zpc, zi, data                              \* parse_capacities_export_zip

evars == <<text, matches, mentions, seen, epc>>
gvars == <<df, normalize_dict_attrs, pc, row_i, file_lookup, nodes, edges>>
zvars == <<archive, zpc, zi, data>>
vars == <<text, matches, mentions, seen, epc,
          df, normalize_dict_attrs, pc, row_i, file_lookup, nodes, edges,
          archive, zpc, zi, data>>

\* ------------------------------------------------------------------ bounds
MaxFragments == 3
MaxRows == 3
MaxEntries == 2

\* ------------------------------------------------------------------ values
NoneVal == [kind |-> "none"]
NaT == [kind |-> "nat"]
Str(s) == [kind |-> "str", v |-> s]
Num(n) == [kind |-> "num", v |-> n]
ListVal(n) == [kind |-> "list", v |-> n]
Dict(m) == [kind |-> "dict", v |-> m]
Timestamp(s) == [kind |-> "timestamp", v |-> s]
DatetimeIndex(n) == [kind |-> "dtindex", v |-> n]
EmptyMap == [k \in {} |-> NoneVal]

Range(s) == {s[x] : x \in DOMAIN s}

\* Python truthiness of a value (the `not x` and `x or y` tests).
Truthy(val) ==
    CASE val.kind = "none" -> FALSE
      [] val.kind = "str" -> val.v # <<>>
      [] val.kind = "dict" -> DOMAIN val.v # {}
      [] val.kind = "list" -> val.v # 0
      [] val.kind = "num" -> val.v # 0
      [] OTHER -> TRUE

\* ------------------------------------------------------------------ strings
Whitespace == {" ", "\n"}

\* str.lower() of one token.
Lower(tok) ==
    CASE tok = "HTTPS://" -> "https://"
      [] tok = "Mailto:" -> "mailto:"
      [] tok = ".MD" -> ".md"
      [] tok = "A" -> "a"
      [] tok = "B" -> "b"
      [] OTHER -> tok

RECURSIVE IndexOf(_, _, _)
\* The first index >= from at which s holds tok, 0 when there is none.
IndexOf(s, tok, from) ==
    IF from > Len(s) THEN 0
    ELSE IF s[from] = tok THEN from
    ELSE IndexOf(s, tok, from + 1)

RECURSIVE LStrip(_)
LStrip(s) == IF s # <<>> /\ Head(s) \in Whitespace THEN LStrip(Tail(s)) ELSE s

RECURSIVE RStrip(_)
RStrip(s) ==
    IF s # <<>> /\ s[Len(s)] \in Whitespace
    THEN RStrip(SubSeq(s, 1, Len(s) - 1))
    ELSE s

\* str.strip()
Strip(s) == RStrip(LStrip(s))

\* `if delimiter in cleaned: cleaned = cleaned.split(delimiter, 1)[0]`
SplitFirst(s, delimiter) ==
    LET at == IndexOf(s, delimiter, 1)
    IN IF at = 0 THEN s ELSE SubSeq(s, 1, at - 1)

RECURSIVE LastSlash(_, _)
\* The last index <= upto at which s holds "/", 0 when there is none.
LastSlash(s, upto) ==
    IF upto = 0 THEN 0
    ELSE IF s[upto] = "/" THEN upto
    ELSE LastSlash(s, upto - 1)

RECURSIVE DropTrailingSlashes(_)
DropTrailingSlashes(s) ==
    IF s # <<>> /\ s[Len(s)] = "/"
    THEN DropTrailingSlashes(SubSeq(s, 1, Len(s) - 1))
    ELSE s

\* PurePosixPath(p).name / Path(p).name: the final path component, trailing
\* slashes ignored; empty for the empty path and for the root.
PathName(p) ==
    LET q == DropTrailingSlashes(p)
    IN SubSeq(q, LastSlash(q, Len(q)) + 1, Len(q))

\* Path(p).stem: the name without its last suffix.
PathStem(p) ==
    LET n == PathName(p)
    IN IF Len(n) > 1 /\ n[Len(n)] \in {".md", ".MD", ".txt"}
       THEN SubSeq(n, 1, Len(n) - 1)
       ELSE n

\* urllib.parse.unquote of one token: a percent escape becomes its character.
UnquoteTok(tok) ==
    CASE tok = "%41" -> "A"
      [] tok = "%42" -> "B"
      [] OTHER -> tok

unquote(s) == [x \in DOMAIN s |-> UnquoteTok(s[x])]

\* ------------------------------------------------------------------ _MENTION_PATTERN
\* The alternatives of the negative lookahead, matched with re.IGNORECASE.
ExcludedSchemes == {"http://", "https://", "mailto:", "capacities://"}

\* \[[^\]]+\]\(  ...  ([^)]+)\)  tried at index at, the lookahead aside:
\* close is the index of "]", stop the index of ")".
LinkSpan(s, at) ==
    IF at > Len(s) \/ s[at] # "[" THEN [ok |-> FALSE, close |-> 0, stop |-> 0]
    ELSE LET close == IndexOf(s, "]", at + 1)
         IN IF close = 0 \/ close = at + 1 \/ close + 1 > Len(s) THEN
                [ok |-> FALSE, close |-> 0, stop |-> 0]
            ELSE IF s[close + 1] # "(" THEN
                [ok |-> FALSE, close |-> 0, stop |-> 0]
            ELSE LET stop == IndexOf(s, ")", close + 2)
                 IN IF stop = 0 \/ stop = close + 2
                    THEN [ok |-> FALSE, close |-> 0, stop |-> 0]
                    ELSE [ok |-> TRUE, close |-> close, stop |-> stop]

\* (?!https?://|mailto:|capacities://) at index at: TRUE when the lookahead
\* lets the match go on.
LookaheadPasses(s, at) == ~(at <= Len(s) /\ Lower(s[at]) \in ExcludedSchemes)

\* One attempt of the whole pattern at index at.
MatchAt(s, at) ==
    LET span == LinkSpan(s, at)
    IN IF span.ok /\ LookaheadPasses(s, span.close + 2)
       THEN span
       ELSE [ok |-> FALSE, close |-> 0, stop |-> 0]

RECURSIVE findall(_, _)
\* _MENTION_PATTERN.findall: the captured group of every leftmost,
\* non-overlapping match, scanning from index from.
findall(s, from) ==
    IF from > Len(s) THEN <<>>
    ELSE LET m == MatchAt(s, from)
         IN IF m.ok
            THEN <<SubSeq(s, m.close + 2, m.stop - 1)>> \o findall(s, m.stop + 1)
            ELSE findall(s, from + 1)

\* ------------------------------------------------------------------ extract_object_mentions
\* The loop body up to the unquote: the file name a match stands for, or skip.
CleanMatch(match) ==
    LET cleaned == Strip(match)
        cut == SplitFirst(SplitFirst(cleaned, "#"), "?")
        filename == PathName(cut)
    IN IF cleaned = <<>> THEN [skip |-> TRUE, filename |-> <<>>]
       ELSE IF filename = <<>> \/ Lower(filename[Len(filename)]) # ".md"
       THEN [skip |-> TRUE, filename |-> <<>>]
       ELSE [skip |-> FALSE, filename |-> unquote(filename)]

\* A loop body that appends without consulting `seen`.
RememberAlways(st, filename) ==
    [mentions |-> Append(st.mentions, filename), seen |-> st.seen \cup {filename}]

\* `if filename not in seen: seen.add(filename); mentions.append(filename)`
Remember(st, filename) ==
    IF filename \in st.seen THEN st
    ELSE [mentions |-> Append(st.mentions, filename),
          seen |-> st.seen \cup {filename}]

\* One iteration of `for match in _MENTION_PATTERN.findall(text_content)`.
ProcessMatch(st, match) ==
    LET c == CleanMatch(match)
    IN IF c.skip THEN st ELSE Remember(st, c.filename)

RECURSIVE MentionLoop(_, _)
MentionLoop(st, ms) ==
    IF ms = <<>> THEN st ELSE MentionLoop(ProcessMatch(st, Head(ms)), Tail(ms))

\* The function as a whole, for its callers.
extract_object_mentions(text_content) ==
    IF ~Truthy(text_content) THEN <<>>
    ELSE MentionLoop([mentions |-> <<>>, seen |-> {}],
                     findall(text_content.v, 1)).mentions

\* --- the function step by step
ExtractBegin ==
    /\ epc = "start"
    /\ IF ~Truthy(text)
       THEN /\ epc' = "done"
            /\ UNCHANGED matches
       ELSE /\ epc' = "loop"
            /\ matches' = findall(text.v, 1)
    /\ UNCHANGED <<text, mentions, seen>>
    /\ UNCHANGED <<gvars, zvars>>

ExtractMatch ==
    /\ epc = "loop"
    /\ matches # <<>>
    /\ LET st == ProcessMatch([mentions |-> mentions, seen |-> seen], Head(matches))
       IN /\ mentions' = st.mentions
          /\ seen' = st.seen
    /\ matches' = Tail(matches)
    /\ UNCHANGED <<text, epc>>
    /\ UNCHANGED <<gvars, zvars>>

ExtractReturn ==
    /\ epc = "loop"
    /\ matches = <<>>
    /\ epc' = "done"
    /\ UNCHANGED <<text, matches, mentions, seen>>
    /\ UNCHANGED <<gvars, zvars>>

\* --- input texts
Link(target) == <<"[", "x", "]", "(">> \o target \o <<")">>

Fragments == {
    Link(<<"A", ".md">>),
    Link(<<"%41", ".md">>),
    Link(<<"B", ".md">>),
    Link(<<"d", "/", "B", ".md", "#", "s">>),
    Link(<<" ", "B", ".MD", "?", "q", " ">>),
    Link(<<"A", ".txt">>),
    Link(<<"https://", "e", "/", "A", ".md">>),
    Link(<<"mailto:", "A", ".md">>),
    Link(<<"capacities://", "A", ".md">>),
    Link(<<" ", "HTTPS://", "e", "/", "A", ".md">>),
    <<"[">>,
    <<"w", " ">> }

RECURSIVE Concat(_)
Concat(ss) == IF ss = <<>> THEN <<>> ELSE Head(ss) \o Concat(Tail(ss))

SeqsUpTo(S, n) == UNION {[1..m -> S] : m \in 0..n}

Texts == {Concat(fs) : fs \in SeqsUpTo(Fragments, MaxFragments)}

ExtractIdle ==
    /\ text = NoneVal
    /\ matches = <<>>
    /\ mentions = <<>>
    /\ seen = {}
    /\ epc = "idle"

GraphIdle ==
    /\ df = <<>>
    /\ normalize_dict_attrs = TRUE
    /\ pc = "idle"
    /\ row_i = 1
    /\ file_lookup = <<>>
    /\ nodes = <<>>
    /\ edges = <<>>

ZipIdle ==
    /\ archive = <<>>
    /\ zpc = "idle"
    /\ zi = 1
    /\ data = <<>>

InitExtract ==
    /\ text \in {NoneVal} \cup {Str(t) : t \in Texts}
    /\ matches = <<>>
    /\ mentions = <<>>
    /\ seen = {}
    /\ epc = "start"
    /\ GraphIdle
    /\ ZipIdle

NextExtract == ExtractBegin \/ ExtractMatch \/ ExtractReturn

SpecExtract == InitExtract /\ [][NextExtract]_vars

\* ------------------------------------------------------------------ build_object_graph
\* A row of capacities_df: every column holds a value.
Row(file_name, title, object_type, properties, date, text_content) ==
    [file_name |-> file_name, title |-> title, object_type |-> object_type,
     properties |-> properties, date |-> date, text_content |-> text_content]

\* `isinstance(file_name, str)` and `file_name` non-empty.
ValidName(val) == val.kind = "str" /\ val.v # <<>>

\* `if pd.isna(date_val)`: the test is true, false, or raises ValueError (the
\* truth value of an array with more than one element is ambiguous).
IsNaTest(val) ==
    CASE val.kind \in {"none", "nat"} -> "true"
      [] val.kind \in {"dtindex", "list"} -> IF val.v = 1 THEN "false" ELSE "raise"
      [] OTHER -> "false"

\* date_val.isoformat() for a Timestamp, str(date_val) for anything else.
DateText(val) ==
    CASE val.kind = "timestamp" -> Str(val.v \o <<"T00:00:00">>)
      [] val.kind = "str" -> val
      [] OTHER -> Str(<<val.kind>>)

\* The keys a mapping may hold, in the order json.dumps meets them.
KeyOrder == <<"type", "title", "date", "ref", "ref2", "n", "nested">>

RECURSIVE JsonTokens(_)
RECURSIVE JsonItems(_, _)
\* json.dumps(v, ensure_ascii=False), as tokens.
JsonTokens(val) ==
    CASE val.kind = "str" -> <<"\"">> \o val.v \o <<"\"">>
      [] val.kind = "num" -> <<"0">>
      [] val.kind = "none" -> <<"null">>
      [] val.kind = "list" -> <<"[]">>
      [] val.kind = "dict" -> <<"{">> \o JsonItems(val.v, 1) \o <<"}">>
      [] OTHER -> <<val.kind>>
JsonItems(m, from) ==
    IF from > Len(KeyOrder) THEN <<>>
    ELSE (IF KeyOrder[from] \in DOMAIN m
          THEN <<"\"", KeyOrder[from], "\"", ":">> \o JsonTokens(m[KeyOrder[from]]) \o <<",">>
          ELSE <<>>) \o JsonItems(m, from + 1)

AttrNames == {"title", "object_type", "properties", "date"}

\* The node_attrs of a row (lines 106-129), or raised.
NodeAttrs(row, normalize) ==
    LET given == [k \in AttrNames |->
                    CASE k = "title" -> row.title
                      [] k = "object_type" -> row.object_type
                      [] k = "properties" -> row.properties
                      [] OTHER -> row.date]
        kept == {k \in AttrNames : given[k].kind # "none"}
        test == IF "date" \in kept THEN IsNaTest(given["date"]) ELSE "false"
        keys == IF test = "true" THEN kept \ {"date"} ELSE kept
        dated == [k \in keys |-> IF k = "date" THEN DateText(given[k]) ELSE given[k]]
    IN [raised |-> test = "raise",
        attrs |-> [k \in keys |->
                    IF normalize /\ dated[k].kind = "dict"
                    THEN Str(JsonTokens(dated[k]))
                    ELSE dated[k]]]

\* networkx DiGraph.add_node(name, **attrs): a new node gets the attributes,
\* a node the graph already holds has them updated.
AddNode(ns, name, attrs) ==
    IF name \in DOMAIN ns
    THEN [ns EXCEPT ![name] =
            [k \in DOMAIN @ \cup DOMAIN attrs |->
                IF k \in DOMAIN attrs THEN attrs[k] ELSE @[k]]]
    ELSE [x \in DOMAIN ns \cup {name} |-> IF x = name THEN attrs ELSE ns[x]]

\* file_lookup.setdefault(file_name, row): the row is kept by its index.
SetDefault(lookup, name, index) ==
    IF name \in DOMAIN lookup THEN lookup
    ELSE [x \in DOMAIN lookup \cup {name} |-> IF x = name THEN index ELSE lookup[x]]

CountOf(s, x) == Cardinality({at \in DOMAIN s : s[at] = x})

\* collections.Counter(list)
Counter(s) == [x \in Range(s) |-> CountOf(s, x)]

\* `for mention in property_mentions: mention_counts[mention] += 1`
CounterAdd(counts, s) ==
    [x \in DOMAIN counts \cup Range(s) |->
        (IF x \in DOMAIN counts THEN counts[x] ELSE 0) + CountOf(s, x)]

RECURSIVE PropertyLoop(_, _, _)
\* `for prop_value in properties.values()` over the keys left.
PropertyLoop(counts, m, keys) ==
    IF keys = {} THEN counts
    ELSE LET k == CHOOSE x \in keys : TRUE
             next == IF m[k].kind = "str"
                     THEN CounterAdd(counts, extract_object_mentions(m[k]))
                     ELSE counts
         IN PropertyLoop(next, m, keys \ {k})

\* The mention_counts of a row (lines 140-150).
MentionCounts(row) ==
    LET text_content == IF Truthy(row.text_content) THEN row.text_content ELSE Str(<<>>)
        body == Counter(extract_object_mentions(text_content))
        properties == IF Truthy(row.properties) THEN row.properties ELSE Dict(EmptyMap)
    IN IF properties.kind = "dict"
       THEN PropertyLoop(body, properties.v, DOMAIN properties.v)
       ELSE body

\* An edge loop that resolves a target only against the rows before the source.
SkipTargetSeenSoFar(source_file, target_file, lookup) ==
    \/ target_file \notin DOMAIN lookup
    \/ source_file = target_file
    \/ lookup[target_file] > lookup[source_file]

\* An edge loop without the self-loop test.
SkipTargetAllowSelf(source_file, target_file, lookup) ==
    target_file \notin DOMAIN lookup

\* The two `continue` tests of the edge loop (lines 153-156).
SkipTarget(source_file, target_file, lookup) ==
    \/ target_file \notin DOMAIN lookup
    \/ source_file = target_file

\* An edge update that stores the new count over the old weight.
AddEdgeOverwrite(es, source_file, target_file, weight) ==
    [e \in DOMAIN es \cup {<<source_file, target_file>>} |->
        IF e = <<source_file, target_file>> THEN weight ELSE es[e]]

\* Lines 158-161: add the count to the weight of an edge the graph holds,
\* else add the edge with the count as its weight.
AddEdge(es, source_file, target_file, weight) ==
    IF <<source_file, target_file>> \in DOMAIN es
    THEN [es EXCEPT ![<<source_file, target_file>>] = @ + weight]
    ELSE [e \in DOMAIN es \cup {<<source_file, target_file>>} |->
            IF e = <<source_file, target_file>> THEN weight ELSE es[e]]

RECURSIVE EdgeLoop(_, _, _, _, _)
\* `for target_file, weight in mention_counts.items()` over the targets left.
EdgeLoop(es, lookup, source_file, counts, targets) ==
    IF targets = {} THEN es
    ELSE LET t == CHOOSE x \in targets : TRUE
             next == IF SkipTarget(source_file, t, lookup) THEN es
                     ELSE AddEdge(es, source_file, t, counts[t])
         IN EdgeLoop(next, lookup, source_file, counts, targets \ {t})

\* One iteration of the second loop (lines 134-161).
ScanRow(es, lookup, row) ==
    IF ~ValidName(row.file_name) THEN es
    ELSE LET counts == MentionCounts(row)
         IN EdgeLoop(es, lookup, row.file_name.v, counts, DOMAIN counts)

RECURSIVE LookupLoop(_, _, _)
\* file_lookup after the first loop has run over rows from index from.
LookupLoop(lookup, rows, from) ==
    IF from > Len(rows) THEN lookup
    ELSE LookupLoop(IF ValidName(rows[from].file_name)
                    THEN SetDefault(lookup, rows[from].file_name.v, from)
                    ELSE lookup,
                    rows, from + 1)

RECURSIVE ScanLoop(_, _, _, _)
ScanLoop(es, lookup, rows, from) ==
    IF from > Len(rows) THEN es
    ELSE ScanLoop(ScanRow(es, lookup, rows[from]), lookup, rows, from + 1)

\* The edges of build_object_graph(rows), for rows whose node pass does not raise.
GraphEdges(rows) == ScanLoop(<<>>, LookupLoop(<<>>, rows, 1), rows, 1)

\* --- the function step by step
\* `if capacities_df is None or capacities_df.empty: return graph`
GraphBegin ==
    /\ pc = "start"
    /\ pc' = IF df = <<>> THEN "done" ELSE "nodes"
    /\ UNCHANGED <<df, normalize_dict_attrs, row_i, file_lookup, nodes, edges>>
    /\ UNCHANGED <<evars, zvars>>

\* One iteration of the first loop (lines 98-131).
RegisterNode ==
    /\ pc = "nodes"
    /\ LET row == df[row_i]
           na == NodeAttrs(row, normalize_dict_attrs)
       IN IF ~ValidName(row.file_name) THEN
              /\ UNCHANGED <<file_lookup, nodes>>
              /\ pc' = IF row_i = Len(df) THEN "edges" ELSE "nodes"
              /\ row_i' = IF row_i = Len(df) THEN 1 ELSE row_i + 1
          ELSE
              /\ file_lookup' = SetDefault(file_lookup, row.file_name.v, row_i)
              /\ IF na.raised THEN
                    /\ pc' = "raised"
                    /\ UNCHANGED <<nodes, row_i>>
                 ELSE
                    /\ nodes' = AddNode(nodes, row.file_name.v, na.attrs)
                    /\ pc' = IF row_i = Len(df) THEN "edges" ELSE "nodes"
                    /\ row_i' = IF row_i = Len(df) THEN 1 ELSE row_i + 1
    /\ UNCHANGED <<df, normalize_dict_attrs, edges>>
    /\ UNCHANGED <<evars, zvars>>

\* One iteration of the second loop (lines 134-161); the last one returns.
AddEdges ==
    /\ pc = "edges"
    /\ edges' = ScanRow(edges, file_lookup, df[row_i])
    /\ pc' = IF row_i = Len(df) THEN "done" ELSE "edges"
    /\ row_i' = IF row_i = Len(df) THEN row_i ELSE row_i + 1
    /\ UNCHANGED <<df, normalize_dict_attrs, file_lookup, nodes>>
    /\ UNCHANGED <<evars, zvars>>

NextGraph == GraphBegin \/ RegisterNode \/ AddEdges

\* --- input rows
TextA == Link(<<"A", ".md">>)
TextB == Link(<<"B", ".md">>)
TextBB == TextB \o <<" ">> \o TextB
TextC == Link(<<"C", ".md">>)
NoProps == Dict(EmptyMap)
RefProps == Dict([k \in {"ref", "n"} |-> IF k = "ref" THEN Str(TextB) ELSE Num(1)])

Contents == {
    [text_content |-> Str(<<>>), properties |-> NoProps],
    [text_content |-> Str(TextA), properties |-> NoProps],
    [text_content |-> Str(TextB), properties |-> NoProps],
    [text_content |-> Str(TextBB), properties |-> NoProps],
    [text_content |-> Str(TextB), properties |-> RefProps] }

EdgeRows ==
    {Row(Str(f), Str(<<"T">>), Str(<<"note">>), c.properties, NoneVal, c.text_content) :
        f \in {<<"A", ".md">>, <<"B", ".md">>}, c \in Contents}
    \cup {Row(Str(<<"A", ".md">>), Str(<<"T">>), Str(<<"note">>), NoProps, NoneVal, Str(TextC)),
          Row(Str(<<>>), Str(<<"T">>), Str(<<"note">>), NoProps, NoneVal, Str(TextB)),
          Row(NoneVal, Str(<<"T">>), Str(<<"note">>), NoneVal, NoneVal, NoneVal)}

InitGraph ==
    /\ df \in SeqsUpTo(EdgeRows, MaxRows)
    /\ normalize_dict_attrs = TRUE
    /\ pc = "start"
    /\ row_i = 1
    /\ file_lookup = <<>>
    /\ nodes = <<>>
    /\ edges = <<>>
    /\ ExtractIdle
    /\ ZipIdle

SpecGraph == InitGraph /\ [][NextGraph]_vars

AttrRows == {
    Row(Str(<<"A", ".md">>), Str(<<"T1">>), Str(<<"note">>), NoProps, NoneVal, Str(<<>>)),
    Row(Str(<<"A", ".md">>), Str(<<"T2">>), Str(<<"person">>), RefProps,
        Timestamp(<<"2025-01-01">>), Str(<<>>)),
    Row(Str(<<"A", ".md">>), ListVal(2), Str(<<"note">>), NoProps, NaT, Str(<<>>)),
    Row(Str(<<"A", ".md">>), NoneVal, Dict(EmptyMap), NoneVal,
        Str(<<"2025-01-01">>), Str(<<>>)),
    Row(Str(<<"B", ".md">>), Str(<<"T1">>), Str(<<"note">>),
        Dict([k \in {"nested", "n"} |-> IF k = "n" THEN Num(1) ELSE Dict(EmptyMap)]),
        NoneVal, Str(TextA)),
    Row(Str(<<"B", ".md">>), Num(1), Str(<<>>), ListVal(1), NaT, Str(<<>>)),
    Row(Str(<<"B", ".md">>), Str(<<"T2">>), Str(<<"note">>), NoProps,
        DatetimeIndex(2), Str(<<>>)),
    Row(NoneVal, Str(<<"T1">>), Str(<<"note">>), NoProps, NoneVal, Str(<<>>)) }

InitGraphAttrs ==
    /\ df \in SeqsUpTo(AttrRows, MaxRows)
    /\ normalize_dict_attrs \in BOOLEAN
    /\ pc = "start"
    /\ row_i = 1
    /\ file_lookup = <<>>
    /\ nodes = <<>>
    /\ edges = <<>>
    /\ ExtractIdle
    /\ ZipIdle

SpecGraphAttrs == InitGraphAttrs /\ [][NextGraph]_vars

\* ------------------------------------------------------------------ parse_capacities_export_zip
\* An archive entry: its name, and its content as the number of parts that
\* "---" divides it into (1 to 4), the text between the first two "---" as a
\* YAML document, and the text after the second "---".  A YAML document is
\* given by what it holds: invalid text, nothing, a scalar, a sequence or a
\* mapping.  A list is given by its length; its elements are date strings.
Entry(name, parts, header, body) ==
    [name |-> name, parts |-> parts, header |-> header, body |-> body]

YamlInvalid == [y |-> "invalid"]
YamlEmpty == [y |-> "empty"]
YamlScalar == [y |-> "scalar"]
YamlSequence == [y |-> "sequence"]
YamlMapping(m) == [y |-> "mapping", v |-> m]

\* `f.endswith(".md")`
IsMarkdownName(name) == name # <<>> /\ name[Len(name)] = ".md"

\* len(content.split("---", 2))
SplitCount(entry) == IF entry.parts >= 3 THEN 3 ELSE entry.parts

\* parts[2] of content.split("---", 2): everything after the second "---".
SplitRest(entry) ==
    IF entry.parts > 3 THEN entry.body \o <<"---">> \o <<"w">> ELSE entry.body

\* yaml.safe_load(parts[1]): the value, or YAMLError raised.
safe_load(header) ==
    CASE header.y = "invalid" -> [raised |-> TRUE, value |-> NoneVal]
      [] header.y = "empty" -> [raised |-> FALSE, value |-> NoneVal]
      [] header.y = "scalar" -> [raised |-> FALSE, value |-> Str(<<"w">>)]
      [] header.y = "sequence" -> [raised |-> FALSE, value |-> ListVal(2)]
      [] OTHER -> [raised |-> FALSE, value |-> Dict(header.v)]

\* `try: properties = yaml.safe_load(parts[1])  except: properties = {}`
LoadProperties(header) ==
    LET loaded == safe_load(header)
    IN IF loaded.raised THEN Dict(EmptyMap) ELSE loaded.value

\* dict.get(key, default)
Get(m, key, default) == IF key \in DOMAIN m THEN m[key] ELSE default

Unset == [kind |-> "unset"]

\* The dict appended to data (lines 47-55); `date` is set by the second loop.
Record(md_file, properties, rest) ==
    Row(Str(PathName(md_file)),
        Get(properties.v, "title", Str(PathStem(md_file))),
        Get(properties.v, "type", Str(<<>>)),
        properties,
        Unset,
        Str(Strip(rest)))

DateTokens == {"2025-01-01", "2025-01-27 11:00"}

\* pd.to_datetime(date_str, errors="raise"): the value, or an exception raised.
to_datetime(val) ==
    CASE val.kind = "none" -> [raised |-> FALSE, value |-> NoneVal]
      [] val.kind = "str" ->
            IF Len(Strip(val.v)) = 1 /\ Strip(val.v)[1] \in DateTokens
            THEN [raised |-> FALSE, value |-> Timestamp(Strip(val.v))]
            ELSE [raised |-> TRUE, value |-> NoneVal]
      [] val.kind = "num" -> [raised |-> FALSE, value |-> Timestamp(<<"1970-01-01">>)]
      [] val.kind = "list" -> [raised |-> FALSE, value |-> DatetimeIndex(val.v)]
      [] OTHER -> [raised |-> TRUE, value |-> NoneVal]

\* Lines 59-64: entry["date"].
EntryDate(properties) ==
    LET parsed == to_datetime(Get(properties.v, "date", NoneVal))
    IN IF parsed.raised THEN NaT ELSE parsed.value

\* pd.DataFrame(data): a date column that holds only None, NaT and Timestamps,
\* and not None alone, becomes a datetime column, in which None is NaT.
DataFrame(records) ==
    LET kinds == {records[at].date.kind : at \in DOMAIN records}
    IN IF kinds \subseteq {"none", "nat", "timestamp"} /\ kinds # {"none"}
       THEN [at \in DOMAIN records |->
                IF records[at].date.kind = "none"
                THEN [records[at] EXCEPT !.date = NaT]
                ELSE records[at]]
       ELSE records

\* --- the function step by step
\* `with zipfile.ZipFile(zip_path, "r") as zip_ref`, and the loops that have
\* nothing to run over.
OpenZip ==
    /\ zpc = "start"
    /\ zpc' = IF archive = <<>> THEN "frame" ELSE "read"
    /\ UNCHANGED <<archive, zi, data>>
    /\ UNCHANGED <<evars, gvars>>

\* One iteration of the first loop (lines 37-55).
ParseEntry ==
    /\ zpc = "read"
    /\ LET entry == archive[zi]
           properties == LoadProperties(entry.header)
           last == zi = Len(archive)
       IN IF IsMarkdownName(entry.name) /\ SplitCount(entry) >= 3 THEN
              IF properties.kind # "dict" THEN
                  \* properties.get raises AttributeError
                  /\ zpc' = "raised"
                  /\ UNCHANGED <<zi, data>>
              ELSE
                  /\ data' = Append(data, Record(entry.name, properties, SplitRest(entry)))
                  /\ zpc' = IF last THEN "dates" ELSE "read"
                  /\ zi' = IF last THEN 1 ELSE zi + 1
          ELSE
              /\ UNCHANGED data
              /\ zpc' = IF ~last THEN "read" ELSE IF data = <<>> THEN "frame" ELSE "dates"
              /\ zi' = IF last THEN 1 ELSE zi + 1
    /\ UNCHANGED archive
    /\ UNCHANGED <<evars, gvars>>

\* One iteration of the second loop (lines 58-64).
AddDate ==
    /\ zpc = "dates"
    /\ data' = [data EXCEPT ![zi].date = EntryDate(data[zi].properties)]
    /\ zpc' = IF zi = Len(data) THEN "frame" ELSE "dates"
    /\ zi' = IF zi = Len(data) THEN zi ELSE zi + 1
    /\ UNCHANGED archive
    /\ UNCHANGED <<evars, gvars>>

\* `return pd.DataFrame(data)`; the frame is handed to build_object_graph.
BuildFrame ==
    /\ zpc = "frame"
    /\ zpc' = "done"
    /\ df' = DataFrame(data)
    /\ pc' = "start"
    /\ UNCHANGED <<archive, zi, data>>
    /\ UNCHANGED <<normalize_dict_attrs, row_i, file_lookup, nodes, edges>>
    /\ UNCHANGED evars

\* --- input archives
Header(type, title) ==
    [k \in {"type", "title"} |-> IF k = "type" THEN Str(<<type>>) ELSE Str(<<title>>)]

WithDate(m, date) ==
    [k \in DOMAIN m \cup {"date"} |-> IF k = "date" THEN date ELSE m[k]]

Entries == {
    Entry(<<"A", ".md">>, 3,
          YamlMapping(WithDate(Header("note", "Meeting"), Str(<<"2025-01-01">>))),
          <<" ">> \o TextB \o <<"\n">>),
    Entry(<<"B", ".md">>, 3, YamlMapping(Header("person", "Corey")), <<>>),
    Entry(<<"d", "/", "A", ".md">>, 3,
          YamlMapping(WithDate(Header("note", "Call"),
                               Str(<<"2025-01-27 11:00", " - ", "11:30">>))),
          <<>>),
    Entry(<<"d", "/", "B", ".md">>, 3,
          YamlMapping(WithDate(Header("note", "Trip"), ListVal(2))), TextA),
    Entry(<<"B", ".md">>, 4, YamlMapping(EmptyMap), TextA),
    Entry(<<"A", ".md">>, 3, YamlInvalid, TextB),
    Entry(<<"A", ".md">>, 3, YamlEmpty, TextB),
    Entry(<<"B", ".md">>, 3, YamlScalar, <<>>),
    Entry(<<"B", ".md">>, 3, YamlSequence, <<>>),
    Entry(<<"A", ".md">>, 2, YamlMapping(Header("note", "Meeting")), <<>>),
    Entry(<<"A", ".md">>, 1, YamlEmpty, <<>>),
    Entry(<<"n", ".txt">>, 3, YamlMapping(Header("note", "Meeting")), TextB) }

InitPipeline ==
    /\ archive \in SeqsUpTo(Entries, MaxEntries)
    /\ zpc = "start"
    /\ zi = 1
    /\ data = <<>>
    /\ GraphIdle
    /\ ExtractIdle

NextPipeline ==
    \/ OpenZip \/ ParseEntry \/ AddDate \/ BuildFrame
    \/ GraphBegin \/ RegisterNode \/ AddEdges

SpecPipeline == InitPipeline /\ [][NextPipeline]_vars

\* ------------------------------------------------------------------ claims on extract_object_mentions
RECURSIVE DecodedTargets(_)
\* The decoded file name of every match that is kept, repeats included.
DecodedTargets(ms) ==
    IF ms = <<>> THEN <<>>
    ELSE LET c == CleanMatch(Head(ms))
         IN (IF c.skip THEN <<>> ELSE <<c.filename>>) \o DecodedTargets(Tail(ms))

NameA == <<"A", ".md">>
NameB == <<"B", ".md">>

\* C3: the list extract_object_mentions returns holds no value twice, holds
\* exactly the decoded identifiers the text references, in the order of each
\* one's first occurrence in the text; empty or null input gives the empty list.
C3_UniqueInFirstOccurrenceOrder ==
    epc = "done" =>
        /\ \A a, b \in DOMAIN mentions : a # b => mentions[a] # mentions[b]
        /\ IF ~Truthy(text) THEN mentions = <<>>
           ELSE LET all == DecodedTargets(findall(text.v, 1))
                IN /\ Range(mentions) = Range(all)
                   /\ \A a, b \in DOMAIN mentions :
                        a < b => IndexOf(all, mentions[a], 1) < IndexOf(all, mentions[b], 1)

\* A text linking A.md, B.md, then A.md again in percent-encoded form.
C3_Witness ==
    /\ epc = "done"
    /\ text = Str(Concat(<<Link(NameA), Link(NameB), Link(<<"%41", ".md">>)>>))
    /\ mentions = <<NameA, NameB>>

\* The target of a link, surrounding whitespace ignored, begins with an
\* excluded scheme in any letter case.
BeginsWithExcludedScheme(target) ==
    LET t == Strip(target)
    IN t # <<>> /\ Lower(t[1]) \in ExcludedSchemes

\* C4: a link whose target, ignoring surrounding whitespace, begins with
\* http://, https://, mailto: or capacities:// in any letter case contributes
\* no identifier: a text all of whose links are such links yields no mention.
C4_ExcludedSchemeNeverExtracted ==
    (epc = "done" /\ Truthy(text)) =>
        ((\A at \in 1..Len(text.v) :
            LET span == LinkSpan(text.v, at)
            IN span.ok =>
                BeginsWithExcludedScheme(SubSeq(text.v, span.close + 2, span.stop - 1)))
          => mentions = <<>>)

\* ------------------------------------------------------------------ claims on build_object_graph
\* The rows of df that carry the identifier name.
RowsNamed(name) ==
    {at \in DOMAIN df : ValidName(df[at].file_name) /\ df[at].file_name.v = name}

RECURSIVE SumOver(_, _)
SumOver(f, S) ==
    IF S = {} THEN 0
    ELSE LET x == CHOOSE y \in S : TRUE IN f[x] + SumOver(f, S \ {x})

\* C1: the graph holds no edge from a node to itself, and the source and the
\* target of every edge are nodes registered from the file_name of an input record.
C1_NoSelfLoopNoDanglingEdge ==
    \A e \in DOMAIN edges :
        /\ e[1] # e[2]
        /\ e[1] \in DOMAIN nodes /\ RowsNamed(e[1]) # {}
        /\ e[2] \in DOMAIN nodes /\ RowsNamed(e[2]) # {}

\* The graph is returned with an edge, from rows of which one references
\* itself and one references a file that no record has.
C1_Witness ==
    /\ pc = "done"
    /\ DOMAIN edges # {}
    /\ \E at \in DOMAIN df :
        /\ ValidName(df[at].file_name)
        /\ df[at].file_name.v \in DOMAIN MentionCounts(df[at])
    /\ \E at \in DOMAIN df :
        /\ ValidName(df[at].file_name)
        /\ \E t \in DOMAIN MentionCounts(df[at]) : t \notin DOMAIN nodes

\* Every occurrence of a recognised internal link to target in a string value.
Occurrences(val, target) ==
    IF val.kind = "str" THEN CountOf(DecodedTargets(findall(val.v, 1)), target) ELSE 0

\* The occurrences in the text_content of a row and in its string-valued properties.
RowOccurrences(row, target) ==
    Occurrences(row.text_content, target)
    + (IF row.properties.kind = "dict"
       THEN SumOver([k \in DOMAIN row.properties.v |->
                        Occurrences(row.properties.v[k], target)],
                    DOMAIN row.properties.v)
       ELSE 0)

\* C2: the weight of the edge (source, target) is the number of occurrences of
\* recognised internal links to target in the source record's text_content and
\* string-valued properties, every occurrence counted once.
C2_WeightCountsEveryOccurrence ==
    pc = "done" =>
        \A at \in DOMAIN df : \A t \in DOMAIN nodes :
            (/\ ValidName(df[at].file_name)
             /\ RowsNamed(df[at].file_name.v) = {at}
             /\ t # df[at].file_name.v
             /\ RowOccurrences(df[at], t) > 0)
            => /\ <<df[at].file_name.v, t>> \in DOMAIN edges
               /\ edges[<<df[at].file_name.v, t>>] = RowOccurrences(df[at], t)

\* The attributes the first row named name gives its node.
FirstRowAttrs(name) ==
    LET first == CHOOSE at \in RowsNamed(name) : \A other \in RowsNamed(name) : at <= other
    IN NodeAttrs(df[first], normalize_dict_attrs).attrs

\* C5: when records share a file_name, the node carries the title, object_type,
\* properties and date of the first of them; later ones change no attribute.
C5_FirstRecordWins ==
    pc = "done" => \A name \in DOMAIN nodes : nodes[name] = FirstRowAttrs(name)

\* C8: with normalize_dict_attrs enabled, every attribute stored on every node
\* is a scalar, a string or a number.
C8_NodeAttrsAreScalars ==
    normalize_dict_attrs =>
        \A name \in DOMAIN nodes : \A k \in DOMAIN nodes[name] :
            nodes[name][k].kind \in {"str", "num"}

\* The records with a usable file_name have pairwise distinct identifiers.
DistinctIdentifiers ==
    \A a, b \in DOMAIN df :
        (a # b /\ ValidName(df[a].file_name) /\ ValidName(df[b].file_name))
        => df[a].file_name.v # df[b].file_name.v

Orderings(n) ==
    {p \in [1..n -> 1..n] : \A a, b \in 1..n : a # b => p[a] # p[b]}

\* C9: a reference from record A to record B yields the edge A -> B whether B
\* comes before or after A in the input, and for records with distinct
\* identifiers every permutation of the input gives the same edges and weights.
C9_EdgesIndependentOfOrder ==
    pc = "done" =>
        /\ \A a, b \in DOMAIN df :
            (/\ ValidName(df[a].file_name) /\ ValidName(df[b].file_name)
             /\ df[a].file_name.v # df[b].file_name.v
             /\ df[b].file_name.v \in DOMAIN MentionCounts(df[a]))
            => <<df[a].file_name.v, df[b].file_name.v>> \in DOMAIN edges
        /\ DistinctIdentifiers =>
            \A p \in Orderings(Len(df)) :
                GraphEdges([at \in 1..Len(df) |-> df[p[at]]]) = edges

\* A record references a record that comes after it in the input, and the
\* edge is in the returned graph.
C9_Witness ==
    /\ pc = "done"
    /\ DistinctIdentifiers
    /\ \E a, b \in DOMAIN df :
        /\ a < b
        /\ ValidName(df[a].file_name) /\ ValidName(df[b].file_name)
        /\ df[b].file_name.v \in DOMAIN MentionCounts(df[a])
        /\ <<df[a].file_name.v, df[b].file_name.v>> \in DOMAIN edges

\* The count the records named source hold for target, summed.
SummedCount(source, target) ==
    SumOver([at \in RowsNamed(source) |->
                IF target \in DOMAIN MentionCounts(df[at])
                THEN MentionCounts(df[at])[target] ELSE 0],
            RowsNamed(source))

\* C10: every record with a non-empty file_name is scanned as a source, a
\* duplicate of an earlier identifier included: the one edge S -> T ends with
\* the sum of the per-record mention counts as its weight.
C10_DuplicateSourcesAccumulate ==
    pc = "done" =>
        \A s, t \in DOMAIN nodes :
            s # t =>
                IF SummedCount(s, t) > 0
                THEN /\ <<s, t>> \in DOMAIN edges
                     /\ edges[<<s, t>>] = SummedCount(s, t)
                ELSE <<s, t>> \notin DOMAIN edges

\* Two records share the identifier S, each references T, and the edge
\* S -> T carries both counts.
C10_Witness ==
    /\ pc = "done"
    /\ \E a, b \in DOMAIN df : \E t \in DOMAIN nodes :
        /\ a < b
        /\ ValidName(df[a].file_name)
        /\ b \in RowsNamed(df[a].file_name.v)
        /\ t # df[a].file_name.v
        /\ t \in DOMAIN MentionCounts(df[a])
        /\ t \in DOMAIN MentionCounts(df[b])
        /\ edges[<<df[a].file_name.v, t>>]
             = MentionCounts(df[a])[t] + MentionCounts(df[b])[t]

\* ------------------------------------------------------------------ claims on parse_capacities_export_zip
\* The entries that become records: a Markdown name, three parts or more.
Documents ==
    {at \in DOMAIN archive :
        IsMarkdownName(archive[at].name) /\ SplitCount(archive[at]) >= 3}

\* C6: the parser never raises because of what a header holds, and every
\* entry that splits into three parts or more yields exactly one record,
\* whose properties is a mapping.
C6_HeaderNeverRaises ==
    /\ zpc # "raised"
    /\ zpc \in {"dates", "frame", "done"} =>
        /\ Len(data) = Cardinality(Documents)
        /\ \A at \in DOMAIN data : data[at].properties.kind = "dict"

\* The date property is missing, or is not a single point in time.
DateUnusable(properties) ==
    /\ properties.kind = "dict"
    /\ LET date == Get(properties.v, "date", NoneVal)
       IN \/ date.kind \notin {"str", "num"}
          \/ to_datetime(date).raised

\* C7: a record whose date is missing or is not a single point in time is
\* produced with a null timestamp, and build_object_graph creates its node
\* with title, object_type and properties and without a date attribute.
C7_UnusableDateKeepsNode ==
    zpc = "done" =>
        \A at \in DOMAIN df :
            (DateUnusable(df[at].properties) /\ RowsNamed(df[at].file_name.v) = {at}) =>
                /\ df[at].date.kind \in {"nat", "none"}
                /\ pc # "raised"
                /\ pc = "done" =>
                    /\ df[at].file_name.v \in DOMAIN nodes
                    /\ DOMAIN nodes[df[at].file_name.v]
                         = {"title", "object_type", "properties"}

====
